---- MODULE Spec2Model ----
(***************************************************************************)
(* Model of src/src/vector.ts: the Vector value object (constructor, get,  *)
(* slice, length, equals, toString, _toDict) together with the JavaScript  *)
(* array, number and string semantics its one-line methods rest on.        *)
(*                                                                         *)
(* JavaScript values are records [k, n, s]: k is the kind, n an integer    *)
(* payload and s a sequence of one-character strings.  A finite number is  *)
(* kept in fixed point, n = ten times its value (1.5 is n = 15), so that   *)
(* Number.prototype.toString and parseFloat are modelled digit by digit.   *)
(* An array is a sequence of slots; the slot Hole is an absent element of  *)
(* a sparse array (new Array(2), [1,,3]).                                  *)
(***************************************************************************)
EXTENDS Integers, Sequences, FiniteSets, TLC

\* ------------------------------------------------------------------ values

Num(t) == [k |-> "num", n |-> t, s |-> <<>>]
NegZero == [k |-> "negzero", n |-> 0, s |-> <<>>]
NaN == [k |-> "nan", n |-> 0, s |-> <<>>]
Infinity(sign) == [k |-> "inf", n |-> sign, s |-> <<>>]
Str(cs) == [k |-> "str", n |-> 0, s |-> cs]
Bool(b) == [k |-> "bool", n |-> IF b THEN 1 ELSE 0, s |-> <<>>]
Null == [k |-> "null", n |-> 0, s |-> <<>>]
Undefined == [k |-> "undefined", n |-> 0, s |-> <<>>]
Hole == [k |-> "hole", n |-> 0, s |-> <<>>]

IsNumber(x) == x.k \in {"num", "negzero", "nan", "inf"}

\* ------------------------------------------------- Number.prototype.toString

DigitChars == <<"0", "1", "2", "3", "4", "5", "6", "7", "8", "9">>
IsDigit(c) == \E d \in 1..Len(DigitChars) : DigitChars[d] = c
DigitVal(c) == (CHOOSE d \in 1..Len(DigitChars) : DigitChars[d] = c) - 1

RECURSIVE NatToChars(_)
NatToChars(m) ==
  IF m < 10 THEN <<DigitChars[m + 1]>>
  ELSE NatToChars(m \div 10) \o <<DigitChars[(m % 10) + 1]>>

Abs(t) == IF t < 0 THEN -t ELSE t

\* The shortest decimal text of t/10: sign, integer digits, and the
\* fraction digit only when it is not zero (1 -> "1", -2.0 -> "-2",
\* 1.5 -> "1.5", 0 -> "0").
FiniteToChars(t) ==
  (IF t < 0 THEN <<"-">> ELSE <<>>)
    \o NatToChars(Abs(t) \div 10)
    \o (IF Abs(t) % 10 = 0 THEN <<>> ELSE <<".", DigitChars[(Abs(t) % 10) + 1]>>)

InfinityChars == <<"I", "n", "f", "i", "n", "i", "t", "y">>

\* x.toString(): throws a TypeError on null and undefined, which have no
\* properties; negative zero prints as "0".
ToStringOf(x) ==
  CASE x.k = "num" -> [threw |-> "", s |-> FiniteToChars(x.n)]
    [] x.k = "negzero" -> [threw |-> "", s |-> <<"0">>]
    [] x.k = "nan" -> [threw |-> "", s |-> <<"N", "a", "N">>]
    [] x.k = "inf" ->
         [threw |-> "", s |-> (IF x.n < 0 THEN <<"-">> ELSE <<>>) \o InfinityChars]
    [] x.k = "str" -> [threw |-> "", s |-> x.s]
    [] x.k = "bool" ->
         [threw |-> "",
          s |-> IF x.n = 1 THEN <<"t", "r", "u", "e">> ELSE <<"f", "a", "l", "s", "e">>]
    [] OTHER -> [threw |-> "TypeError", s |-> <<>>]

\* ---------------------------------------------------------------- parseFloat

RECURSIVE TrimLeft(_)
TrimLeft(cs) ==
  IF cs # <<>> /\ Head(cs) = " " THEN TrimLeft(Tail(cs)) ELSE cs

RECURSIVE DigitRun(_)
DigitRun(cs) ==
  IF cs # <<>> /\ IsDigit(Head(cs)) THEN <<Head(cs)>> \o DigitRun(Tail(cs)) ELSE <<>>

RECURSIVE CharsToNat(_, _)
CharsToNat(ds, acc) ==
  IF ds = <<>> THEN acc ELSE CharsToNat(Tail(ds), acc * 10 + DigitVal(Head(ds)))

HasPrefix(cs, p) == Len(cs) >= Len(p) /\ SubSeq(cs, 1, Len(p)) = p

\* parseFloat(text): skip leading white space, read the longest prefix that
\* is a decimal literal (sign, "Infinity" or digits with an optional
\* fraction) and ignore the rest; no such prefix gives NaN.  A literal of
\* magnitude zero with a minus sign gives negative zero.  The fixed point
\* keeps one fraction digit, and the exponent part is not modelled: the
\* texts of the model have at most one fraction digit and no exponent.
parseFloat(text) ==
  LET t0 == TrimLeft(text)
      neg == t0 # <<>> /\ Head(t0) = "-"
      signed == t0 # <<>> /\ Head(t0) \in {"-", "+"}
      body == IF signed THEN Tail(t0) ELSE t0
      ints == DigitRun(body)
      rest == SubSeq(body, Len(ints) + 1, Len(body))
      frac == IF rest # <<>> /\ Head(rest) = "." THEN DigitRun(Tail(rest)) ELSE <<>>
      mag == CharsToNat(ints, 0) * 10 + (IF frac = <<>> THEN 0 ELSE DigitVal(Head(frac)))
  IN  IF HasPrefix(body, InfinityChars) THEN Infinity(IF neg THEN -1 ELSE 1)
      ELSE IF ints = <<>> /\ frac = <<>> THEN NaN
      ELSE IF mag = 0 THEN (IF neg THEN NegZero ELSE Num(0))
      ELSE Num(IF neg THEN -mag ELSE mag)


\* ------------------------------------------------------------------- bounds

MaxLen == 2
MaxCells == 5

\* ------------------------------------------------------------------- arrays

Min(a, b) == IF a < b THEN a ELSE b
Max(a, b) == IF a > b THEN a ELSE b

\* Array.prototype.map: a new array of the same length; the callback runs
\* on the elements that are present, and a hole stays a hole.  mapped[i] is
\* what the callback returns for element i.
ArrayMap(elems, mapped) ==
  [i \in 1..Len(elems) |-> IF elems[i] = Hole THEN Hole ELSE mapped[i]]

\* ToIntegerOrInfinity of an index argument (tenths truncated toward zero).
ToInteger(x) ==
  CASE x.k = "num" -> IF x.n < 0 THEN -((-x.n) \div 10) ELSE x.n \div 10
    [] OTHER -> 0

\* A relative index as Array.prototype.slice resolves it: a negative one
\* counts from the end, and the result is clamped to 0..len.
RelativeIndex(rel, len) == IF rel < 0 THEN Max(len + rel, 0) ELSE Min(rel, len)

RECURSIVE SliceCopy(_, _, _, _)
SliceCopy(elems, k, final, acc) ==
  IF k < final THEN SliceCopy(elems, k + 1, final, Append(acc, elems[k + 1]))
  ELSE acc

\* Array.prototype.slice(start, end): an omitted start is 0, an omitted end
\* is the length; holes are copied as holes.
ArraySlice(elems, start, end) ==
  LET len == Len(elems)
      k == RelativeIndex(ToInteger(start), len)
      final == IF end = Undefined THEN len ELSE RelativeIndex(ToInteger(end), len)
  IN  SliceCopy(elems, k, final, <<>>)

\* elems[index]: undefined for a hole, an index out of range or a
\* non-integer index.
IndexRead(elems, index) ==
  IF index.k = "num" /\ index.n % 10 = 0 /\ index.n >= 0 /\ index.n \div 10 < Len(elems)
     /\ elems[(index.n \div 10) + 1] # Hole
  THEN elems[(index.n \div 10) + 1]
  ELSE Undefined

\* a === b: NaN equals nothing, and the two zeros are equal.
StrictEquals(a, b) ==
  CASE a.k = "nan" \/ b.k = "nan" -> FALSE
    [] a.k = "negzero" -> b = NegZero \/ b = Num(0)
    [] b.k = "negzero" -> a = Num(0)
    [] OTHER -> a = b

\* Array.prototype.every: the callback runs on the elements that are
\* present only; holes are skipped.  verdict[i] is what the callback
\* returns for element i.
ArrayEvery(elems, verdict) ==
  \A i \in 1..Len(elems) : elems[i] = Hole \/ verdict[i]

\* Array.prototype.join: undefined, null and holes print as nothing.
RECURSIVE ArrayJoin(_, _)
ArrayJoin(elems, sep) ==
  IF elems = <<>> THEN <<>>
  ELSE (IF Head(elems).k \in {"hole", "undefined", "null"} THEN <<>>
        ELSE ToStringOf(Head(elems)).s)
       \o (IF Tail(elems) = <<>> THEN <<>> ELSE sep \o ArrayJoin(Tail(elems), sep))

\* --------------------------------------------------------------------- heap

\* Arrays live in cells; a reference is a cell number, so that two objects
\* holding the same cell share storage.
Cells == 1..MaxCells
Free == [live |-> FALSE, elems |-> <<>>]
Fresh(h) == CHOOSE c \in Cells : ~h[c].live /\ \A d \in Cells : ~h[d].live => c <= d
Alloc(h, elems) ==
  [h |-> [h EXCEPT ![Fresh(h)] = [live |-> TRUE, elems |-> elems]], ref |-> Fresh(h)]

\* ------------------------------------------------------------------- Vector

VECTOR_VALUE == 31

\* An object is a Vector (value: the cell of its array), a plain array
\* (value: its own cell) or absent; origin records how a Vector was made.
NoVector == [class |-> "None", value |-> 0, origin |-> ""]
Vector(cell) == [class |-> "Vector", value |-> cell, origin |-> "constructor"]
PlainArray(cell) == [class |-> "Array", value |-> cell, origin |-> ""]

\* v => parseFloat(v.toString())
Coerce(x) == parseFloat(ToStringOf(x).s)

\* The constructor as it would be if it kept the caller's array.
constructorKeepsArgument(h, value) ==
  [threw |-> "", h |-> h, this |-> Vector(value)]

\* new Vector(value): this.value is a new array, the map of the argument;
\* the callback throws on the first present element without a toString.
constructor(h, value) ==
  LET src == h[value].elems
      a == Alloc(h, ArrayMap(src, [i \in 1..Len(src) |-> Coerce(src[i])]))
  IN  IF \E i \in 1..Len(src) : src[i] # Hole /\ ToStringOf(src[i]).threw # ""
      THEN [threw |-> "TypeError", h |-> h, this |-> NoVector]
      ELSE [threw |-> "", h |-> a.h, this |-> Vector(a.ref)]

get(h, this, index) == IndexRead(h[this.value].elems, index)

\* slice as it would be if it cut the range out of the receiver (splice).
sliceBySplice(h, this, start, end) ==
  LET elems == h[this.value].elems
      cut == ArraySlice(elems, start, end)
      k == RelativeIndex(ToInteger(start), Len(elems))
      kept == SubSeq(elems, 1, k) \o SubSeq(elems, k + Len(cut) + 1, Len(elems))
      a == Alloc([h EXCEPT ![this.value].elems = kept], cut)
  IN  constructor(a.h, a.ref)

slice(h, this, start, end) ==
  LET a == Alloc(h, ArraySlice(h[this.value].elems, start, end))
  IN  constructor(a.h, a.ref)

length(h, this) == Num(10 * Len(h[this.value].elems))

\* (v, i) => v === other.value[i], at every index of this.value
EveryVerdicts(h, this, other) ==
  [i \in 1..Len(h[this.value].elems) |->
     StrictEquals(h[this.value].elems[i],
                  IndexRead(h[other.value].elems, Num(10 * (i - 1))))]

\* equals as it would be without the instanceof check, comparing against
\* whatever elements the argument holds.
equalsDuckTyped(h, this, other) ==
  [threw |-> "",
   ret |-> Bool(Len(h[this.value].elems) = Len(h[other.value].elems)
                /\ ArrayEvery(h[this.value].elems, EveryVerdicts(h, this, other)))]

equals(h, this, other) ==
  IF other.class # "Vector"
  THEN [threw |-> "Error", ret |-> Undefined]
  ELSE [threw |-> "",
        ret |-> Bool(Len(h[this.value].elems) = Len(h[other.value].elems)
                     /\ ArrayEvery(h[this.value].elems, EveryVerdicts(h, this, other)))]

toString(h, this) ==
  <<"V", "e", "c", "t", "o", "r", "<">> \o ArrayJoin(h[this.value].elems, <<",", " ">>) \o <<">">>

DoubleValue(x) == [k |-> "object", n |-> 0, s |-> <<>>, double_value |-> x]

_toDict(h, this) ==
  [array_value |-> [values |-> ArrayMap(h[this.value].elems,
                                        [i \in 1..Len(h[this.value].elems) |->
                                           DoubleValue(h[this.value].elems[i])])],
   meaning |-> VECTOR_VALUE,
   exclude_from_indexes |-> TRUE]

\* -------------------------------------------------------------------- state

\* A caller holds one array (input) and two Vector variables: v, built from
\* input, and w, built from an array literal or sliced from v.  last is the
\* most recent call and what it returned or threw.
VARIABLES heap, input, v, w, last
vars == <<heap, input, v, w, last>>

NoDict == [array_value |-> [values |-> <<>>], meaning |-> 0, exclude_from_indexes |-> FALSE]
NoCall ==
  [op |-> "", recv |-> "", other |-> "", a |-> Undefined, b |-> Undefined,
   threw |-> "", ret |-> Undefined, str |-> <<>>, dict |-> NoDict]

SeqsUpTo(S, n) == UNION {[1..m -> S] : m \in 0..n}

\* What a caller may put in an array handed to the constructor.
Values == {Num(15), NegZero, Str(<<"-", "0">>), Str(<<"x">>), Null, Hole}
Inputs == SeqsUpTo(Values, MaxLen)
Literals == SeqsUpTo({Num(15)}, MaxLen)
StorageValues == {Num(10), Hole}
StorageInputs == SeqsUpTo(StorageValues, MaxLen)
Written == Num(70)

GetIndexes == {Num(10 * j) : j \in -1..MaxLen}
SliceArgs == {Undefined} \cup {Num(10 * j) : j \in {-(MaxLen + 1), -1, 0, 1, MaxLen + 1}}
StorageSliceArgs == {Undefined, Num(-10), Num(10)}

Object(name) ==
  CASE name = "v" -> v
    [] name = "w" -> w
    [] OTHER -> PlainArray(input)

Elems(o) == heap[o.value].elems

\* Arrays no variable reaches are reclaimed, and the arrays that stay are
\* renumbered by owner (input, then v's own, then w's own): a cell number
\* is only a name, sharing is what it carries.
Settle(h, vv, ww) ==
  LET vOwn == vv.class = "Vector" /\ vv.value # input
      wOnV == ww.class = "Vector" /\ vv.class = "Vector" /\ ww.value = vv.value
      wOwn == ww.class = "Vector" /\ ww.value # input /\ ~wOnV
      nv == IF vOwn THEN [vv EXCEPT !.value = input + 1] ELSE vv
      nw == IF wOwn THEN [ww EXCEPT !.value = input + 2]
            ELSE IF wOnV THEN [ww EXCEPT !.value = nv.value] ELSE ww
  IN  [heap |-> [c \in Cells |->
                   IF c = input THEN h[input]
                   ELSE IF c = input + 1 /\ vOwn THEN h[vv.value]
                   ELSE IF c = input + 2 /\ wOwn THEN h[ww.value]
                   ELSE Free],
       v |-> nv, w |-> nw]

Commit(h, vv, ww, call) ==
  LET st == Settle(h, vv, ww)
  IN  /\ heap' = st.heap
      /\ v' = st.v
      /\ w' = st.w
      /\ last' = call
      /\ UNCHANGED input

\* A call that only reads: nothing but its result changes.
Return(call) == last' = call /\ UNCHANGED <<heap, input, v, w>>

InitWith(S) ==
  \E s \in S :
    LET a == Alloc([c \in Cells |-> Free], s)
    IN  /\ heap = a.h
        /\ input = a.ref
        /\ v = NoVector
        /\ w = NoVector
        /\ last = NoCall

Init == InitWith(Inputs)
InitStorage == InitWith(StorageInputs)

\* ------------------------------------------------------------------ actions

\* const v = new Vector(input)
NewV ==
  /\ v.class = "None"
  /\ LET r == constructor(heap, input)
     IN  Commit(r.h, r.this, w,
                [NoCall EXCEPT !.op = "constructor", !.recv = "v", !.threw = r.threw])

\* w = new Vector([...]) on an array literal, which nothing else holds
NewW(S) ==
  \E s \in S :
    /\ \E c \in Cells : ~heap[c].live
    /\ LET a == Alloc(heap, s)
           r == constructor(a.h, a.ref)
       IN  Commit(r.h, v, IF r.threw = "" THEN r.this ELSE w,
                  [NoCall EXCEPT !.op = "constructor", !.recv = "w", !.threw = r.threw])

\* v.get(i), w.get(i)
CallGet ==
  \E name \in {"v", "w"}, i \in GetIndexes :
    /\ Object(name).class = "Vector"
    /\ Return([NoCall EXCEPT !.op = "get", !.recv = name, !.a = i,
                             !.ret = get(heap, Object(name), i)])

\* w = v.slice(a, b)
CallSlice(Args) ==
  \E a \in Args, b \in Args :
    /\ v.class = "Vector"
    /\ LET r == slice(heap, v, a, b)
       IN  Commit(r.h, v, IF r.threw = "" THEN [r.this EXCEPT !.origin = "slice"] ELSE w,
                  [NoCall EXCEPT !.op = "slice", !.recv = "v", !.a = a, !.b = b,
                                 !.threw = r.threw])

\* v.length, w.length
CallLength ==
  \E name \in {"v", "w"} :
    /\ Object(name).class = "Vector"
    /\ Return([NoCall EXCEPT !.op = "length", !.recv = name,
                             !.ret = length(heap, Object(name))])

\* v.equals(o), w.equals(o) with o a Vector or the caller's plain array
CallEquals ==
  \E name \in {"v", "w"}, o \in {"v", "w", "input"} :
    /\ Object(name).class = "Vector"
    /\ Object(o).class # "None"
    /\ LET r == equals(heap, Object(name), Object(o))
       IN  Return([NoCall EXCEPT !.op = "equals", !.recv = name, !.other = o,
                                 !.threw = r.threw, !.ret = r.ret])

\* v.toString(), w.toString()
CallToString ==
  \E name \in {"v", "w"} :
    /\ Object(name).class = "Vector"
    /\ Return([NoCall EXCEPT !.op = "toString", !.recv = name,
                             !.str = toString(heap, Object(name))])

\* v._toDict(), w._toDict()
CallToDict ==
  \E name \in {"v", "w"} :
    /\ Object(name).class = "Vector"
    /\ Return([NoCall EXCEPT !.op = "_toDict", !.recv = name,
                             !.dict = _toDict(heap, Object(name))])

\* input[0] = x by the caller
WriteInput ==
  /\ Len(heap[input].elems) > 0
  /\ Commit([heap EXCEPT ![input].elems[1] = Written], v, w,
            [NoCall EXCEPT !.op = "write", !.recv = "input"])

\* v.value[0] = x, w.value[0] = x by the caller (value is a public field)
WriteValue ==
  \E name \in {"v", "w"} :
    /\ Object(name).class = "Vector"
    /\ Len(Elems(Object(name))) > 0
    /\ Commit([heap EXCEPT ![Object(name).value].elems[1] = Written], v, w,
              [NoCall EXCEPT !.op = "write", !.recv = name])

Next ==
  \/ NewV
  \/ NewW(Literals)
  \/ CallGet
  \/ CallSlice(SliceArgs)
  \/ CallLength
  \/ CallEquals
  \/ CallToString
  \/ CallToDict

Spec == Init /\ [][Next]_vars

NextStorage ==
  \/ NewV
  \/ CallGet
  \/ CallSlice(StorageSliceArgs)
  \/ CallLength
  \/ CallEquals
  \/ CallToString
  \/ CallToDict
  \/ WriteInput
  \/ WriteValue

SpecStorage == InitStorage /\ [][NextStorage]_vars

\* ------------------------------------------------------------------- claims

InputElems == heap[input].elems
IsVector(name) == Object(name).class = "Vector"

\* C1: v.equals(v) returns true for every Vector the constructor produces,
\* the ones holding NaN included.
EqualsReflexive ==
  (last.op = "equals" /\ last.other = last.recv)
    => (last.threw = "" /\ last.ret = Bool(TRUE))

\* C2: constructing a Vector never throws, and every element of the result
\* is a number (NaN where the input could not be coerced).
ConstructionNeverFails ==
  (last.op = "constructor" /\ last.recv = "v")
    => /\ last.threw = ""
       /\ IsVector("v")
       /\ \A i \in 1..Len(InputElems) : IsNumber(Elems(v)[i])

\* C3: equals with an argument that is not a Vector throws the error and
\* returns no boolean, whatever the argument holds.
EqualsRejectsNonVector ==
  (last.op = "equals" /\ last.other = "input")
    => (last.threw = "Error" /\ last.ret = Undefined)

EqualsRejectsNonVectorWitness ==
  /\ last.op = "equals"
  /\ last.other = "input"
  /\ last.threw = "Error"
  /\ Elems(Object(last.recv)) = InputElems
  /\ InputElems # <<>>
  /\ \A i \in 1..Len(InputElems) : IsNumber(InputElems[i])

\* Two slots hold equal elements: both absent, or both present and equal
\* as numbers (the reading under which NaN equals nothing).
EqualElements(x, y) ==
  IF x = Hole \/ y = Hole THEN x = y ELSE StrictEquals(x, y)

\* C4: a.equals(b) is true exactly when a and b have the same length and
\* hold equal elements at every position.
EqualsIsStructural ==
  (last.op = "equals" /\ last.threw = "")
    => LET a == Elems(Object(last.recv))
           b == Elems(Object(last.other))
       IN  last.ret = Bool(Len(a) = Len(b)
                           /\ \A i \in 1..Len(a) : EqualElements(a[i], b[i]))

\* The position a slice argument stands for in a sequence of len elements.
SliceBound(x, len, omitted) ==
  IF x = Undefined THEN omitted
  ELSE IF ToInteger(x) < 0 THEN Max(len + ToInteger(x), 0)
  ELSE Min(ToInteger(x), len)

\* C5: v.slice(start, end) holds exactly the elements of v from start up to
\* end, a negative index counting from the end and every index clamped to
\* the length.
SliceIsSubrange ==
  (last.op = "slice" /\ last.threw = "")
    => LET e == Elems(v)
           lo == SliceBound(last.a, Len(e), 0)
           hi == SliceBound(last.b, Len(e), Len(e))
       IN  /\ IsVector("w")
           /\ Len(Elems(w)) = Max(hi - lo, 0)
           /\ \A j \in 1..Len(Elems(w)) : Elems(w)[j] = e[lo + j]

\* C6: no call of get, slice, length, equals, toString or _toDict, failing
\* ones included, changes the elements or the length of an existing Vector.
MethodOps == {"get", "slice", "length", "equals", "toString", "_toDict"}

VectorImmutable ==
  [][last'.op \in MethodOps
       => /\ IsVector("v") => (IsVector("v")' /\ Elems(v)' = Elems(v))
          /\ (IsVector("w") /\ last'.op # "slice")
               => (IsVector("w")' /\ Elems(w)' = Elems(w))]_vars

VectorImmutableWitness ==
  /\ last.op = "slice"
  /\ IsVector("w")
  /\ Elems(w) # <<>>
  /\ Len(Elems(w)) < Len(Elems(v))

\* C7: _toDict returns meaning 31, exclude_from_indexes true and one
\* {double_value: x} entry per element, in order, as many as the length.
ToDictShape ==
  (last.op = "_toDict")
    => LET o == Object(last.recv)
           values == last.dict.array_value.values
       IN  /\ last.dict.meaning = 31
           /\ last.dict.exclude_from_indexes = TRUE
           /\ Len(values) = Len(Elems(o))
           /\ \A i \in 1..Len(values) :
                /\ values[i].k = "object"
                /\ values[i].double_value = get(heap, o, Num(10 * (i - 1)))

\* C8: for a sequence s of numbers, Vector(s).length is the length of s and
\* Vector(s).get(i) is the number s[i] at every valid index i.
ConstructionPreservesInput ==
  (last.recv = "v" /\ \A i \in 1..Len(InputElems) : IsNumber(InputElems[i]))
    => /\ last.op = "length" => last.ret = Num(10 * Len(InputElems))
       /\ (last.op = "get" /\ last.a.n >= 0 /\ last.a.n < 10 * Len(InputElems))
            => last.ret = InputElems[(last.a.n \div 10) + 1]

\* C9: v1.equals(v2) returns what v2.equals(v1) returns.
EqualsSymmetric ==
  (last.op = "equals" /\ last.threw = "" /\ last.other # last.recv)
    => last.ret = equals(heap, Object(last.other), Object(last.recv)).ret

\* C10: a write to the caller's array, or to the storage of one Vector,
\* changes the elements of no other object: the constructor and slice share
\* no storage with their argument or receiver.
NoSharedStorage ==
  [][last'.op = "write"
       => /\ last'.recv # "input" => InputElems' = InputElems
          /\ (last'.recv # "v" /\ IsVector("v")) => Elems(v)' = Elems(v)
          /\ (last'.recv # "w" /\ IsVector("w")) => Elems(w)' = Elems(w)]_vars

NoSharedStorageWitness ==
  /\ last.op = "write"
  /\ last.recv = "w"
  /\ w.origin = "slice"
  /\ Elems(w)[1] = Written
  /\ Elems(v)[1] # Written
  /\ InputElems[1] = Written
====
